---- MODULE Spec2Model ----
(***************************************************************************)
(* Model of examples/python/csv_processor.py: class CSVProcessor.          *)
(*                                                                         *)
(* Text is a sequence of one-character strings, so that str.strip(),       *)
(* int(), float() and the writer's str() are computed, not assumed.        *)
(* A message of the errors list is a record holding the fields that the    *)
(* f-string interpolates.                                                  *)
(***************************************************************************)
EXTENDS Integers, Sequences, FiniteSets, TLC

(***************************************************************************)
(* Bounds of the model.                                                    *)
(***************************************************************************)
\* the longest input file, in lines after the header line
MaxRows == 3
\* how many times the client calls validate_input() itself before the run
MaxValidateCalls == 2

(***************************************************************************)
(* Text: str.strip(), int(str), float(str), str(int), repr(float).         *)
(***************************************************************************)
DigitChars == <<"0", "1", "2", "3", "4", "5", "6", "7", "8", "9">>

IsDigit(c) == \E i \in 1..10 : DigitChars[i] = c

DigitValue(c) == (CHOOSE i \in 1..10 : DigitChars[i] = c) - 1

\* str.isspace() on the characters a cell of the file can hold
IsSpace(c) == c \in {" ", "\t"}

RECURSIVE LStrip(_)
LStrip(s) == IF s # <<>> /\ IsSpace(Head(s)) THEN LStrip(Tail(s)) ELSE s

RECURSIVE RStrip(_)
RStrip(s) ==
    IF s # <<>> /\ IsSpace(s[Len(s)]) THEN RStrip(SubSeq(s, 1, Len(s) - 1)) ELSE s

\* str.strip()
Strip(s) == RStrip(LStrip(s))

\* str.lower() on the letters of the float keywords
Lower(c) ==
    CASE c = "N" -> "n" [] c = "A" -> "a" [] c = "I" -> "i" [] c = "F" -> "f"
      [] c = "T" -> "t" [] c = "Y" -> "y" [] c = "E" -> "e" [] OTHER -> c

LowerText(s) == [i \in 1..Len(s) |-> Lower(s[i])]

HasSign(s) == s # <<>> /\ Head(s) \in {"+", "-"}

IsNegative(s) == s # <<>> /\ Head(s) = "-"

Unsigned(s) == IF HasSign(s) THEN Tail(s) ELSE s

\* digits, with single underscores allowed between digits (PEP 515)
DigitRun(s) ==
    /\ s # <<>>
    /\ IsDigit(s[1])
    /\ IsDigit(s[Len(s)])
    /\ \A i \in 1..Len(s) : IsDigit(s[i]) \/ s[i] = "_"
    /\ \A i \in 1..(Len(s) - 1) : ~(s[i] = "_" /\ s[i + 1] = "_")

RECURSIVE RunValue(_)
RunValue(s) ==
    IF s = <<>> THEN 0
    ELSE LET c == s[Len(s)]
             r == SubSeq(s, 1, Len(s) - 1)
         IN  IF c = "_" THEN RunValue(r) ELSE 10 * RunValue(r) + DigitValue(c)

RunDigits(s) == Cardinality({i \in 1..Len(s) : IsDigit(s[i])})

RECURSIVE Pow10(_)
Pow10(n) == IF n <= 0 THEN 1 ELSE 10 * Pow10(n - 1)

\* int(text) returns a value: otherwise it raises ValueError
IntParses(s) == DigitRun(Unsigned(Strip(s)))

\* int(text)
IntValue(s) ==
    LET t == Strip(s)
        v == RunValue(Unsigned(t))
    IN  IF IsNegative(t) THEN 0 - v ELSE v

\* the first position of character c in s, 0 when there is none
Find(s, c) ==
    IF \E i \in 1..Len(s) : s[i] = c
    THEN CHOOSE i \in 1..Len(s) : s[i] = c /\ \A j \in 1..(i - 1) : s[j] # c
    ELSE 0

Before(s, c) == IF Find(s, c) = 0 THEN s ELSE SubSeq(s, 1, Find(s, c) - 1)

After(s, c) == IF Find(s, c) = 0 THEN <<>> ELSE SubSeq(s, Find(s, c) + 1, Len(s))

FloatKeywords ==
    { <<"n", "a", "n">>, <<"i", "n", "f">>,
      <<"i", "n", "f", "i", "n", "i", "t", "y">> }

\* a decimal mantissa: digits, ".", digits, with a digit on one side at least
IsMantissa(m) ==
    LET ip == Before(m, ".")
        fp == After(m, ".")
    IN  /\ ip = <<>> \/ DigitRun(ip)
        /\ fp = <<>> \/ DigitRun(fp)
        /\ ip # <<>> \/ fp # <<>>

IsDecimal(u) ==
    /\ IsMantissa(Before(u, "e"))
    /\ Find(u, "e") # 0 => DigitRun(Unsigned(After(u, "e")))

\* float(text) returns a value: otherwise it raises ValueError
FloatParses(s) ==
    LET u == Unsigned(LowerText(Strip(s)))
    IN  u \in FloatKeywords \/ IsDecimal(u)

\* num / den, den a power of ten, without common factors of ten
RECURSIVE Reduce(_, _)
Reduce(num, den) ==
    IF num = 0 THEN <<0, 1>>
    ELSE IF den > 1 /\ num % 10 = 0 THEN Reduce(num \div 10, den \div 10)
    ELSE <<num, den>>

\* float(text): [cls, neg, num, den], the value being (-1)^neg * num / den
FloatValue(s) ==
    LET t  == LowerText(Strip(s))
        u  == Unsigned(t)
        m  == Before(u, "e")
        x  == After(u, "e")
        ip == Before(m, ".")
        fp == After(m, ".")
        e  == IF IsNegative(x) THEN 0 - RunValue(Unsigned(x)) ELSE RunValue(Unsigned(x))
        n0 == RunValue(ip) * Pow10(RunDigits(fp)) + RunValue(fp)
        d0 == Pow10(RunDigits(fp))
        q  == Reduce(n0 * Pow10(e), d0 * Pow10(0 - e))
    IN  IF u = <<"n", "a", "n">>
        THEN [cls |-> "nan", neg |-> IsNegative(t), num |-> 0, den |-> 1]
        ELSE IF u \in FloatKeywords
        THEN [cls |-> "inf", neg |-> IsNegative(t), num |-> 0, den |-> 1]
        ELSE [cls |-> "finite", neg |-> IsNegative(t), num |-> q[1], den |-> q[2]]

\* x < 0 on floats: False for nan and for -0.0
FloatLtZero(x) ==
    CASE x.cls = "nan" -> FALSE
      [] x.cls = "inf" -> x.neg
      [] OTHER -> x.neg /\ x.num > 0

RECURSIVE NatToText(_)
NatToText(n) ==
    IF n < 10 THEN <<DigitChars[n + 1]>>
    ELSE NatToText(n \div 10) \o <<DigitChars[(n % 10) + 1]>>

\* str(int)
IntToText(n) == IF n < 0 THEN <<"-">> \o NatToText(0 - n) ELSE NatToText(n)

RECURSIVE FracToText(_, _)
FracToText(r, den) ==
    IF den <= 1 THEN <<>>
    ELSE <<DigitChars[(r \div (den \div 10)) + 1]>>
         \o FracToText(r % (den \div 10), den \div 10)

\* repr(float), in the range that repr writes without an exponent
FloatToText(x) ==
    LET sign == IF x.neg THEN <<"-">> ELSE <<>>
        frac == FracToText(x.num % x.den, x.den)
    IN  CASE x.cls = "nan" -> <<"n", "a", "n">>
          [] x.cls = "inf" -> sign \o <<"i", "n", "f">>
          [] OTHER -> sign \o NatToText(x.num \div x.den) \o <<".">>
                      \o (IF frac = <<>> THEN <<"0">> ELSE frac)

(***************************************************************************)
(* The inputs: a file is its header line (column names) and the lines      *)
(* after it (each a sequence of cells, <<>> being a blank line).           *)
(***************************************************************************)
Headers ==
    { <<"id", "name", "value">>,
      <<"id", "name">>,
      <<"value", "extra", "id", "name">> }

SampleLines ==
    { <<>>,
      << <<"1">>, <<"A", "l">>, <<"1", "0", ".", "5">> >>,
      << <<" ", "7">>, <<" ", "Z", " ">>, <<"0">> >>,
      << <<"2">>, <<" ">>, <<"5">> >>,
      << <<"3">>, <<"B">>, <<"-", "1">> >>,
      << <<"x">>, <<"E">>, <<"3">> >>,
      << <<"4">>, <<"D">>, <<"n", "a", "n">> >>,
      << <<"5">>, <<"C">>, <<"a">> >>,
      << <<"6">>, <<"F">> >>,
      << <<"8">>, <<"G">>, <<"2">>, <<"9">>, <<"H">> >> }

RECURSIVE SeqsUpTo(_, _)
SeqsUpTo(S, n) ==
    IF n = 0 THEN {<<>>}
    ELSE LET R == SeqsUpTo(S, n - 1)
         IN  R \cup {Append(r, x) : r \in {q \in R : Len(q) = n - 1}, x \in S}

NoFile == [exists |-> FALSE, header |-> <<>>, rows |-> <<>>]

OldFile == [exists |-> TRUE, header |-> <<"old">>, rows |-> << << <<"0">> >> >>]

VARIABLES
    input_file,      \* self.input_file
    output_file,     \* self.output_file
    processed_rows,  \* self.processed_rows
    errors,          \* self.errors
    input_kind,      \* what input_file names: "missing", "dir" or "file"
    input_header,    \* the first line of the source file
    input_rows,      \* the lines after it
    dest,            \* what output_file names
    pc,              \* "init": constructed; "rows": in the loop; "done": returned
    fieldnames,      \* reader.fieldnames
    row_num,         \* the number enumerate() gives to the next row
    pos,             \* how many lines after the header the reader has consumed
    processed_data,  \* the local list of process_csv
    result,          \* what process_csv returned: "none" until it returns
    raised,          \* an exception left process_csv
    summary,         \* what the last get_summary() returned
    evaluated,       \* history: <<line index, row_num>> of every _process_row call
    accepted_lines,  \* history: the line index of every accepted row
    writes,          \* history: how many times output_file was opened for writing
    dest_before,     \* history: dest when the processor was constructed
    validate_calls,  \* history: the client's own calls of validate_input()
    fault            \* history: the I/O operation that failed, "none" if none did

vars ==
    << input_file, output_file, processed_rows, errors, input_kind, input_header,
       input_rows, dest, pc, fieldnames, row_num, pos, processed_data, result, raised,
       summary, evaluated, accepted_lines, writes, dest_before, validate_calls, fault >>

\* an entry of self.errors: the message's template and what it interpolates
Diag(kind, row, field, detail) ==
    [kind |-> kind, row |-> row, field |-> field, detail |-> detail]

NoSummary ==
    [input_file |-> "", output_file |-> "", processed_rows |-> 0, errors |-> <<>>,
     success |-> FALSE, taken |-> FALSE]

Init ==
    /\ input_file = "in.csv"
    /\ output_file = "out.csv"
    /\ processed_rows = 0
    /\ errors = <<>>
    /\ input_kind \in {"missing", "dir", "file"}
    /\ \/ /\ input_kind = "file"
          /\ \/ /\ input_header \in Headers
                /\ input_rows \in SeqsUpTo(SampleLines, MaxRows)
             \/ /\ input_header = <<>>
                /\ input_rows \in SeqsUpTo(SampleLines, 1)
       \/ /\ input_kind # "file"
          /\ input_header = <<>>
          /\ input_rows = <<>>
    /\ dest \in {NoFile, OldFile}
    /\ dest_before = dest
    /\ pc = "init"
    /\ fieldnames = <<>>
    /\ row_num = 2
    /\ pos = 0
    /\ processed_data = <<>>
    /\ result = "none"
    /\ raised = FALSE
    /\ summary = NoSummary
    /\ evaluated = <<>>
    /\ accepted_lines = <<>>
    /\ writes = 0
    /\ validate_calls = 0
    /\ fault = "none"

(***************************************************************************)
(* validate_input                                                          *)
(***************************************************************************)
\* validate_input without its first "return False": a missing path goes on
\* to the is_file() check
ValidateInput_FallsThrough(kind, path) ==
    (IF kind = "missing" THEN <<Diag("NotFound", 0, "", path)>> ELSE <<>>)
    \o (IF kind # "file" THEN <<Diag("NotAFile", 0, "", path)>> ELSE <<>>)

\* the entries validate_input appends; it returns True iff it appends none
ValidateInput(kind, path) ==
    IF kind = "missing" THEN <<Diag("NotFound", 0, "", path)>>
    ELSE IF kind # "file" THEN <<Diag("NotAFile", 0, "", path)>>
    ELSE <<>>

(***************************************************************************)
(* csv.DictReader                                                          *)
(***************************************************************************)
\* the row dict's value under key: the cell of the last column of that name,
\* restval (None) when the line is shorter than the header
RowGet(names, cells, key) ==
    LET i == CHOOSE i \in 1..Len(names) :
                 names[i] = key /\ \A j \in (i + 1)..Len(names) : names[j] # key
    IN  IF i <= Len(cells) THEN [none |-> FALSE, text |-> cells[i]]
        ELSE [none |-> TRUE, text |-> <<>>]

\* the dict DictReader yields for a line; the cells beyond the header go under
\* the key None, which nothing reads
DictRow(names, cells) ==
    [key \in {names[i] : i \in 1..Len(names)} |-> RowGet(names, cells, key)]

\* the index of the next line the reader yields after consuming p lines: it
\* skips the blank ones; 0 at the end of the file
NextLine(lines, p) ==
    IF \E i \in (p + 1)..Len(lines) : lines[i] # <<>>
    THEN CHOOSE i \in (p + 1)..Len(lines) :
             lines[i] # <<>> /\ \A j \in (p + 1)..(i - 1) : lines[j] = <<>>
    ELSE 0

(***************************************************************************)
(* _process_row                                                            *)
(***************************************************************************)
RequiredFields == <<"id", "name", "value">>

NoRecord == [id |-> 0, name |-> <<>>, value |-> FloatValue(<<"0">>)]

Outcome(kind, rec, errs) == [kind |-> kind, rec |-> rec, errs |-> errs]

\* the loop over required_fields from field k on: "ok", or the rejection
RECURSIVE CheckRequired(_, _, _)
CheckRequired(row, n, k) ==
    IF k > Len(RequiredFields) THEN Outcome("ok", NoRecord, <<>>)
    ELSE LET field == RequiredFields[k]
         IN  IF field \notin DOMAIN row
             THEN Outcome("none", NoRecord, <<Diag("MissingField", n, field, "")>>)
             ELSE IF row[field].none
             THEN Outcome("raise", NoRecord, <<>>)
             ELSE IF Strip(row[field].text) = <<>>
             THEN Outcome("none", NoRecord, <<Diag("MissingField", n, field, "")>>)
             ELSE CheckRequired(row, n, k + 1)

\* the conversion and the business rule
Convert(row, n) ==
    IF ~IntParses(row["id"].text)
    THEN Outcome("none", NoRecord, <<Diag("Conversion", n, "id", "int")>>)
    ELSE IF ~FloatParses(row["value"].text)
    THEN Outcome("none", NoRecord, <<Diag("Conversion", n, "value", "float")>>)
    ELSE LET rec == [id |-> IntValue(row["id"].text),
                     name |-> Strip(row["name"].text),
                     value |-> FloatValue(row["value"].text)]
         IN  IF FloatLtZero(rec.value)
             THEN Outcome("none", NoRecord, <<Diag("Negative", n, "", "")>>)
             ELSE Outcome("record", rec, <<>>)

\* _process_row(row, row_num): kind "record" (rec is returned), "none" (None is
\* returned) or "raise" (AttributeError leaves it); errs is what it appends
ProcessRow(row, n) ==
    LET req == CheckRequired(row, n, 1)
    IN  IF req.kind = "ok" THEN Convert(row, n) ELSE req

(***************************************************************************)
(* _write_output                                                           *)
(***************************************************************************)
\* what DictWriter writes for column key of a row dict: restval for a column
\* the dict does not hold
FormatField(rec, key) ==
    CASE key = "id" -> IntToText(rec.id)
      [] key = "name" -> rec.name
      [] key = "value" -> FloatToText(rec.value)
      [] OTHER -> <<>>

\* _write_output without writer.writeheader()
WriteOutput_NoHeader(data, names) ==
    [exists |-> TRUE,
     header |-> <<>>,
     rows |-> [i \in 1..Len(data) |->
                  [j \in 1..Len(names) |-> FormatField(data[i], names[j])]]]

WriteOutput(data, names) ==
    [exists |-> TRUE,
     header |-> names,
     rows |-> [i \in 1..Len(data) |->
                  [j \in 1..Len(names) |-> FormatField(data[i], names[j])]]]

(***************************************************************************)
(* process_csv, in steps: up to the loop, one row of the loop, after it    *)
(***************************************************************************)
\* "if not reader.fieldnames"
NoFieldnames(names) == names = <<>>

\* "if processed_row": None is falsy, a dict of three keys is truthy
Truthy(out) == out.kind = "record"

\* the handler around the loop body with "pass" for a body
RowErrors_HandlerSilent(out, n) == out.errs

\* what one pass of the loop body appends to self.errors: what _process_row
\* appended and, when it raised, the entry of the handler around the body
RowErrors(out, n) ==
    IF out.kind = "raise"
    THEN out.errs \o <<Diag("RowException", n, "", "AttributeError")>>
    ELSE out.errs

\* a row counter that is not advanced
NextRowNum_Stuck(n) == n

\* enumerate(reader, start=2): the number of the row after row n
NextRowNum(n) == n + 1

\* the output written whatever processed_data holds
HasData_Always(data) == TRUE

\* "if processed_data"
HasData(data) == data # <<>>

\* the handler around the whole of process_csv: the entry it appends
FileProcessingError(cause) == Diag("FileProcessing", 0, "", cause)

\* _write_output called after the try block instead of inside it
Escapes_FromWrite(cause) == cause = "write"

\* whether an exception raised inside the try block of process_csv leaves it
Escapes(cause) == FALSE

Locals == << fieldnames, row_num, pos, processed_data >>

Environment == << input_file, output_file, input_kind, input_header, input_rows, dest_before >>

ProcessCsvStart ==
    /\ pc = "init"
    /\ LET v == ValidateInput(input_kind, input_file)
       IN  IF v # <<>>
           THEN /\ errors' = errors \o v
                /\ result' = "false"
                /\ pc' = "done"
                /\ fieldnames' = fieldnames
           ELSE IF NoFieldnames(input_header)
           THEN /\ errors' = Append(errors, Diag("NoHeaders", 0, "", ""))
                /\ result' = "false"
                /\ pc' = "done"
                /\ fieldnames' = input_header
           ELSE /\ errors' = errors
                /\ result' = result
                /\ pc' = "rows"
                /\ fieldnames' = input_header
    /\ UNCHANGED << Environment, processed_rows, dest, row_num, pos, processed_data,
                    raised, summary, evaluated, accepted_lines, writes, validate_calls,
                    fault >>

ProcessCsvRow ==
    /\ pc = "rows"
    /\ NextLine(input_rows, pos) # 0
    /\ LET i   == NextLine(input_rows, pos)
           out == ProcessRow(DictRow(fieldnames, input_rows[i]), row_num)
       IN  /\ pos' = i
           /\ evaluated' = Append(evaluated, <<i, row_num>>)
           /\ errors' = errors \o RowErrors(out, row_num)
           /\ IF out.kind # "raise" /\ Truthy(out)
              THEN /\ processed_data' = Append(processed_data, out.rec)
                   /\ processed_rows' = processed_rows + 1
                   /\ accepted_lines' = Append(accepted_lines, i)
              ELSE UNCHANGED << processed_data, processed_rows, accepted_lines >>
           /\ row_num' = NextRowNum(row_num)
    /\ UNCHANGED << Environment, dest, pc, fieldnames, result, raised, summary, writes,
                    validate_calls, fault >>

ProcessCsvEnd ==
    /\ pc = "rows"
    /\ NextLine(input_rows, pos) = 0
    /\ IF HasData(processed_data)
       THEN /\ dest' = WriteOutput(processed_data, fieldnames)
            /\ writes' = writes + 1
            /\ result' = "true"
            /\ errors' = errors
       ELSE /\ errors' = Append(errors, Diag("NoValidRows", 0, "", ""))
            /\ result' = "false"
            /\ UNCHANGED << dest, writes >>
    /\ pos' = Len(input_rows)
    /\ pc' = "done"
    /\ UNCHANGED << Environment, processed_rows, fieldnames, row_num, processed_data,
                    raised, summary, evaluated, accepted_lines, validate_calls, fault >>

(***************************************************************************)
(* get_summary                                                             *)
(***************************************************************************)
Summary ==
    [input_file |-> input_file, output_file |-> output_file,
     processed_rows |-> processed_rows, errors |-> errors,
     success |-> (Len(errors) = 0), taken |-> TRUE]

GetSummary ==
    /\ pc = "done"
    /\ summary # Summary
    /\ summary' = Summary
    /\ UNCHANGED << Environment, processed_rows, errors, dest, pc, Locals, result, raised,
                    evaluated, accepted_lines, writes, validate_calls, fault >>

Next == ProcessCsvStart \/ ProcessCsvRow \/ ProcessCsvEnd \/ GetSummary

\* one run of process_csv on a new CSVProcessor, every I/O operation succeeding
Spec == Init /\ [][Next]_vars

(***************************************************************************)
(* The client calls validate_input() itself, before or after process_csv.  *)
(***************************************************************************)
ValidateInputCall ==
    /\ pc \in {"init", "done"}
    /\ validate_calls < MaxValidateCalls
    /\ errors' = errors \o ValidateInput(input_kind, input_file)
    /\ validate_calls' = validate_calls + 1
    /\ UNCHANGED << Environment, processed_rows, dest, pc, Locals, result, raised, summary,
                    evaluated, accepted_lines, writes, fault >>

NextClient == Next \/ ValidateInputCall

\* validate_input() does not look into the file: files of one line after the
\* header are enough here
InitClient == Init /\ Len(input_rows) <= 1

SpecClient == InitClient /\ [][NextClient]_vars

(***************************************************************************)
(* I/O operations that fail: open() and the reads of the source, open()    *)
(* and the writes of the destination, which raise inside the try block of  *)
(* process_csv; and the stat() of the source under exists() and is_file(), *)
(* which validate_input calls before that block is entered.                *)
(***************************************************************************)
\* the handler at the end of process_csv
Handle(cause) ==
    /\ errors' = Append(errors, FileProcessingError(cause))
    /\ result' = IF Escapes(cause) THEN result ELSE "false"
    /\ raised' = Escapes(cause)
    /\ pc' = "done"
    /\ fault' = cause

\* stat(input_file) fails with an error other than "no such file" (the name
\* is too long, a directory of the path cannot be searched). Path.exists()
\* returns False or lets the OSError through, depending on the errno and on
\* the version of pathlib: both outcomes are kept.
StatFault ==
    /\ pc = "init"
    /\ \/ /\ errors' = errors \o ValidateInput("missing", input_file)
          /\ result' = "false"
          /\ raised' = raised
       \/ /\ errors' = errors
          /\ result' = result
          /\ raised' = TRUE
    /\ pc' = "done"
    /\ fault' = "stat"
    /\ UNCHANGED << Environment, processed_rows, dest, Locals, summary, evaluated,
                    accepted_lines, writes, validate_calls >>

\* open(input_file) fails, or the read of the header line does
OpenFault ==
    /\ pc = "init"
    /\ ValidateInput(input_kind, input_file) = <<>>
    /\ \E cause \in {"open", "read"} : Handle(cause)
    /\ UNCHANGED << Environment, processed_rows, dest, Locals, summary, evaluated,
                    accepted_lines, writes, validate_calls >>

\* the read of the next line fails
ReadFault ==
    /\ pc = "rows"
    /\ pos < Len(input_rows)
    /\ Handle("read")
    /\ UNCHANGED << Environment, processed_rows, dest, Locals, summary, evaluated,
                    accepted_lines, writes, validate_calls >>

\* what a failed _write_output leaves behind: nothing new when open() failed,
\* else the header and some of the rows, or less
PartialOutputs(old, data, names) ==
    {old, [exists |-> TRUE, header |-> <<>>, rows |-> <<>>]}
    \cup {[exists |-> TRUE, header |-> names,
           rows |-> SubSeq(WriteOutput(data, names).rows, 1, k)] : k \in 0..(Len(data) - 1)}

WriteFault ==
    /\ pc = "rows"
    /\ NextLine(input_rows, pos) = 0
    /\ HasData(processed_data)
    /\ dest' \in PartialOutputs(dest, processed_data, fieldnames)
    /\ writes' = writes + 1
    /\ Handle("write")
    /\ UNCHANGED << Environment, processed_rows, Locals, summary, evaluated,
                    accepted_lines, validate_calls >>

NextFault == Next \/ StatFault \/ OpenFault \/ ReadFault \/ WriteFault

SpecFault == Init /\ [][NextFault]_vars
(***************************************************************************)
(* Vocabulary of the properties                                            *)
(***************************************************************************)
Done == pc = "done"

\* the run read a header and went through the loop
HeaderRead == input_kind = "file" /\ input_header # <<>>

DataLines == {i \in 1..Len(input_rows) : input_rows[i] # <<>>}

AcceptedSet == {accepted_lines[k] : k \in 1..Len(accepted_lines)}

\* the entries of self.errors that carry a row number
RowDiagIndexes == {j \in 1..Len(errors) : errors[j].row > 0}

DiagsOfRow(n) == {j \in 1..Len(errors) : errors[j].row = n}

\* the row dict of the k-th evaluated row
EvaluatedRow(k) == DictRow(input_header, input_rows[evaluated[k][1]])

\* a required field the line does not supply, or supplies blank
Lacks(row, field) ==
    \/ field \notin DOMAIN row
    \/ row[field].none
    \/ Strip(row[field].text) = <<>>

FirstLacking(row) ==
    RequiredFields[CHOOSE k \in 1..Len(RequiredFields) :
        Lacks(row, RequiredFields[k]) /\ \A j \in 1..(k - 1) : ~Lacks(row, RequiredFields[j])]

\* x >= 0 on floats: False for nan
FloatGeZero(x) ==
    CASE x.cls = "nan" -> FALSE
      [] x.cls = "inf" -> ~x.neg
      [] OTHER -> ~x.neg \/ x.num = 0

\* the acceptance rule as the specification words it
Acceptable(row) ==
    /\ \A f \in {"id", "name", "value"} : f \in DOMAIN row /\ ~row[f].none
    /\ IntParses(row["id"].text)
    /\ Strip(row["name"].text) # <<>>
    /\ FloatParses(row["value"].text)
    /\ FloatGeZero(FloatValue(row["value"].text))

(***************************************************************************)
(* C1                                                                      *)
(***************************************************************************)
\* C1: a completed process_csv() on a new processor returns True if and only
\* if at least one record was accepted and self.errors is empty at the end.
C1_TrueIffAcceptedAndNoDiagnostics ==
    Done => ((result = "true") <=> (processed_rows >= 1 /\ errors = <<>>))

(***************************************************************************)
(* C2                                                                      *)
(***************************************************************************)
\* C2: a data row is accepted (appended to processed_data, processed_rows
\* incremented) if and only if its id parses as an integer, its name is not
\* blank and its value parses as a float that is >= 0.
C2_AcceptedIffAcceptable ==
    /\ Len(accepted_lines) = processed_rows
    /\ Len(processed_data) = processed_rows
    /\ \A k \in 1..Len(evaluated) :
           (evaluated[k][1] \in AcceptedSet) <=> Acceptable(EvaluatedRow(k))

(***************************************************************************)
(* C3                                                                      *)
(***************************************************************************)
\* C3: every evaluated row has exactly one entry in self.errors when it was
\* rejected and none when it was accepted, so the row entries and
\* processed_rows add up to the rows evaluated: to all N data rows once the
\* loop has ended.
C3_OneDiagnosticPerRejectedRow ==
    /\ \A k \in 1..Len(evaluated) :
           Cardinality(DiagsOfRow(evaluated[k][2])) =
               IF evaluated[k][1] \in AcceptedSet THEN 0 ELSE 1
    /\ Cardinality(RowDiagIndexes) + processed_rows = Len(evaluated)
    /\ (Done /\ HeaderRead) => Len(evaluated) = Cardinality(DataLines)

\* a finished run with an accepted row, a rejected row and the entry of the
\* handler around the loop body
C3_Witness ==
    /\ Done
    /\ processed_rows >= 1
    /\ \E j \in 1..Len(errors) : errors[j].kind = "RowException"

(***************************************************************************)
(* C4                                                                      *)
(***************************************************************************)
\* C4: when the source is missing, is not a regular file or has no header
\* line, process_csv returns False with exactly one entry in self.errors
\* (naming the path for a missing source, "no headers" for an empty file),
\* processed_rows stays 0 and the destination is left as it was.
C4_TerminalSourceError ==
    (Done /\ ~HeaderRead) =>
        /\ result = "false"
        /\ Len(errors) = 1
        /\ input_kind = "missing" => errors[1] = Diag("NotFound", 0, "", input_file)
        /\ input_kind = "dir" => errors[1] = Diag("NotAFile", 0, "", input_file)
        /\ input_kind = "file" => errors[1].kind = "NoHeaders"
        /\ processed_rows = 0
        /\ evaluated = <<>>
        /\ writes = 0
        /\ dest = dest_before

\* process_csv has returned on a file whose first line is blank, lines
\* following it, an older destination file being there
C4_Witness ==
    /\ Done
    /\ input_kind = "file"
    /\ input_header = <<>>
    /\ input_rows # <<>>
    /\ dest_before = OldFile

(***************************************************************************)
(* C5                                                                      *)
(***************************************************************************)
\* C5: a run that read a header and accepted no record ends with the entry
\* "No valid rows to process" after the row entries, returns False and
\* leaves the destination as it was.
C5_NoValidRows ==
    (Done /\ HeaderRead /\ processed_rows = 0) =>
        /\ errors # <<>>
        /\ errors[Len(errors)].kind = "NoValidRows"
        /\ \A j \in 1..(Len(errors) - 1) : errors[j].row > 0
        /\ result = "false"
        /\ writes = 0
        /\ dest = dest_before

\* every data row of a two-row file was rejected
C5_Witness ==
    /\ Done
    /\ HeaderRead
    /\ processed_rows = 0
    /\ Len(errors) = 3

(***************************************************************************)
(* C6                                                                      *)
(***************************************************************************)
\* the text of the accepted rows, in the order of acceptance
ExpectedRows ==
    [k \in 1..Len(accepted_lines) |->
        LET rec == ProcessRow(DictRow(input_header, input_rows[accepted_lines[k]]), 0).rec
        IN  [j \in 1..Len(input_header) |-> FormatField(rec, input_header[j])]]

\* C6: the destination is written iff a record was accepted, once at most
\* and only after every data row was processed; it then holds the source's
\* header and exactly the accepted records, in file order.
C6_DestinationContent ==
    /\ writes <= 1
    /\ writes = 0 => dest = dest_before
    /\ writes = 1 => Done /\ Len(evaluated) = Cardinality(DataLines)
    /\ Done => ((writes = 1) <=> (processed_rows >= 1))
    /\ writes = 1 =>
           /\ dest.exists
           /\ dest.header = input_header
           /\ dest.rows = ExpectedRows
           /\ Len(dest.rows) = processed_rows
           /\ \A a, b \in 1..Len(accepted_lines) :
                  a < b => accepted_lines[a] < accepted_lines[b]

\* the destination was written from a file with a rejected row before an
\* accepted one
C6_Witness ==
    /\ writes = 1
    /\ Len(evaluated) = 2
    /\ accepted_lines = <<2>>
    /\ dest_before = OldFile

(***************************************************************************)
(* C7                                                                      *)
(***************************************************************************)
\* C7 as stated: validate_input() has no side effects, so whatever the
\* client called before, process_csv on a missing source ends with exactly
\* one entry in self.errors.
C7_ValidateHasNoSideEffects ==
    /\ pc = "init" => errors = <<>> /\ processed_rows = 0 /\ dest = dest_before
    /\ (Done /\ input_kind = "missing") => Len(errors) = 1

\* one call of validate_input() by the client
ValidateStep == validate_calls' = validate_calls + 1

\* C7 as amended: validate_input() leaves processed_rows and the files as
\* they are; it leaves self.errors as it is when it succeeds and appends
\* exactly one entry when it fails, so process_csv on a missing source ends
\* with one entry more than the client's own calls of validate_input().
C7_ValidateAppendsOnFailure ==
    /\ [][ValidateStep =>
            /\ processed_rows' = processed_rows
            /\ dest' = dest
            /\ <<input_kind, input_header, input_rows>>' =
                   <<input_kind, input_header, input_rows>>
            /\ input_kind = "file" => errors' = errors
            /\ input_kind # "file" =>
                   /\ Len(errors') = Len(errors) + 1
                   /\ SubSeq(errors', 1, Len(errors)) = errors
                   /\ errors'[Len(errors')].detail = input_file]_vars
    /\ []((Done /\ input_kind = "missing") => Len(errors) = validate_calls + 1)

\* the client validated a missing source twice, then ran process_csv
C7_Witness ==
    /\ Done
    /\ input_kind = "missing"
    /\ validate_calls = 2
    /\ Len(errors) = 3

(***************************************************************************)
(* C8                                                                      *)
(***************************************************************************)
\* C8: when opening or reading the source or writing the destination fails,
\* process_csv returns False, an entry describing the failure is appended,
\* the remaining steps are not executed, and no exception reaches the caller.
C8_NoFaultEscapes ==
    fault \in {"open", "read", "write"} =>
           /\ raised = FALSE
           /\ Done
           /\ result = "false"
           /\ errors # <<>>
           /\ errors[Len(errors)] = FileProcessingError(fault)
           /\ \A j \in 1..Len(errors) : errors[j].kind # "NoValidRows"
           /\ fault \in {"open", "read"} => writes = 0 /\ dest = dest_before
           /\ fault = "open" => evaluated = <<>>
           /\ ~ENABLED ProcessCsvRow
           /\ ~ENABLED ProcessCsvEnd

\* the write of the destination failed after a record was accepted
C8_Witness ==
    /\ fault = "write"
    /\ Done
    /\ processed_rows >= 1

(***************************************************************************)
(* C9                                                                      *)
(***************************************************************************)
\* the k-th line the reader yields
RECURSIVE NthDataLine(_)
NthDataLine(k) ==
    IF k = 1 THEN NextLine(input_rows, 0) ELSE NextLine(input_rows, NthDataLine(k - 1))

\* C9: a rejected row does not stop the loop: every data row is evaluated
\* once, the k-th with row number k + 1, and the row entries of self.errors
\* carry increasing row numbers; entries are never removed or reordered.
C9_RowsInFileOrder ==
    /\ [](/\ \A k \in 1..Len(evaluated) : evaluated[k] = <<NthDataLine(k), k + 1>>
          /\ (Done /\ HeaderRead) => Len(evaluated) = Cardinality(DataLines)
          /\ \A a, b \in RowDiagIndexes : a < b => errors[a].row < errors[b].row
          /\ \A j \in RowDiagIndexes :
                 \E k \in 1..Len(evaluated) :
                     evaluated[k][2] = errors[j].row /\ evaluated[k][1] \notin AcceptedSet)
    /\ [][Len(errors') >= Len(errors) /\ SubSeq(errors', 1, Len(errors)) = errors]_vars

\* two rows were rejected one after the other
C9_Witness ==
    /\ Done
    /\ Len(evaluated) = 2
    /\ Cardinality(RowDiagIndexes) = 2
    /\ errors[1].row = 2
    /\ errors[2].row = 3

(***************************************************************************)
(* C10                                                                     *)
(***************************************************************************)
\* C10: for every row that lacks one of id, name, value (absent, or blank
\* after trimming), _process_row returns None without raising and the one
\* entry it appends is "Row n: Missing required field 'f'", f being the
\* first such field in that order.
C10_MissingFieldShortCircuit ==
    \A k \in 1..Len(evaluated) :
        LET row == EvaluatedRow(k)
            n   == evaluated[k][2]
        IN  (\E f \in {"id", "name", "value"} : Lacks(row, f)) =>
                /\ evaluated[k][1] \notin AcceptedSet
                /\ \A j \in DiagsOfRow(n) :
                       errors[j] = Diag("MissingField", n, FirstLacking(row), "")
                /\ Cardinality(DiagsOfRow(n)) = 1
====
